---- MODULE Spec2Model ----
(***************************************************************************)
(* generate_icon.py: a straight-line script that creates the asset-catalog *)
(* directories, draws a 1024x1024 icon (six arcs and a centred label),     *)
(* saves it as icon.png and writes two Contents.json files.                *)
(*                                                                         *)
(* The script is modelled statement by statement.  pc is the statement     *)
(* about to run; the file system (dirs, files) outlives a run, everything  *)
(* else is local to one run of the interpreter.  Library calls that depend *)
(* on the host (font loading, text measurement, mkdir, open, write) have   *)
(* their outcome chosen nondeterministically.                              *)
(***************************************************************************)
EXTENDS Integers, Sequences, FiniteSets, TLC

VARIABLES
    pc,          \* the statement about to run, or "done" / "crashed"
    run,         \* ordinal of the current invocation of the script
    dirs,        \* file system: the set of existing directories (paths)
    files,       \* file system: path -> content, for the existing files
    img,         \* the PIL image (mode, size, background, drawing operations)
    r_idx,       \* position of the arc loop in its list of radii
    font,        \* the local variable font
    bbox,        \* (left, top, right, bottom) returned by draw.textbbox
    stdout,      \* what this run has printed
    exit_code,   \* exit status of the interpreter, -1 while it is running
    crash_at,    \* the statement whose exception ended the run, "" if none
    written,     \* paths whose write was completed by this run, in order
    raised,      \* the statements of this run whose call raised an exception
    prev         \* the two Contents.json files as the previous run left them

vars == <<pc, run, dirs, files, img, r_idx, font, bbox, stdout, exit_code,
          crash_at, written, raised, prev>>

\* Number of invocations of the script in one behaviour.
MaxRuns == 2

Range(s) == {s[i] : i \in 1..Len(s)}

----------------------------------------------------------------------------
(* Configuration, lines 6-8.  A path is the sequence of its components.    *)

PathJoin(a, b) == Append(a, b)

base_dir == <<"TrollNFC", "Assets.xcassets">>

icon_set_dir == PathJoin(base_dir, "AppIcon.appiconset")

icon_filename == "icon.png"

icon_path == PathJoin(icon_set_dir, icon_filename)

iconset_json_path == PathJoin(icon_set_dir, "Contents.json")

root_json_path_in_iconset == PathJoin(icon_set_dir, "Contents.json")

root_json_path == PathJoin(base_dir, "Contents.json")

Parent(p) == SubSeq(p, 1, Len(p) - 1)

\* The directories on the way to p, p included, outermost first.
Prefixes(p) == [i \in 1..Len(p) |-> SubSeq(p, 1, i)]

----------------------------------------------------------------------------
(* Python values as the json module sees them.  A dict keeps its keys in   *)
(* insertion order, so it is a sequence of <<key, value>> pairs.           *)

PyStr(s) == [t |-> "str", s |-> s]
PyInt(n) == [t |-> "int", n |-> n]
PyList(items) == [t |-> "list", items |-> items]
PyDict(pairs) == [t |-> "dict", pairs |-> pairs]

Image_(size_, idiom, filename, scale) ==
    PyDict(<< <<"size", PyStr(size_)>>, <<"idiom", PyStr(idiom)>>,
            <<"filename", PyStr(filename)>>, <<"scale", PyStr(scale)>> >>)

info == PyDict(<< <<"author", PyStr("xcode")>>, <<"version", PyInt(1)>> >>)

contents_bad_filename ==
    PyDict(<< <<"images", PyList(<<
              Image_("20x20", "iphone", icon_filename, "2x"),
              Image_("20x20", "iphone", icon_filename, "3x"),
              Image_("29x29", "iphone", icon_filename, "2x"),
              Image_("29x29", "iphone", icon_filename, "3x"),
              Image_("40x40", "iphone", icon_filename, "2x"),
              Image_("40x40", "iphone", icon_filename, "3x"),
              Image_("60x60", "iphone", icon_filename, "2x"),
              Image_("60x60", "iphone", icon_filename, "3x"),
              Image_("1024x1024", "ios-marketing", "icon-1024.png", "1x") >>)>>,
            <<"info", info>> >>)

contents_swapped ==
    PyDict(<< <<"images", PyList(<<
              Image_("20x20", "iphone", icon_filename, "2x"),
              Image_("20x20", "iphone", icon_filename, "3x"),
              Image_("29x29", "iphone", icon_filename, "3x"),
              Image_("29x29", "iphone", icon_filename, "2x"),
              Image_("40x40", "iphone", icon_filename, "2x"),
              Image_("40x40", "iphone", icon_filename, "3x"),
              Image_("60x60", "iphone", icon_filename, "2x"),
              Image_("60x60", "iphone", icon_filename, "3x"),
              Image_("1024x1024", "ios-marketing", icon_filename, "1x") >>)>>,
            <<"info", info>> >>)

\* Lines 49-110.
contents ==
    PyDict(<< <<"images", PyList(<<
              Image_("20x20", "iphone", icon_filename, "2x"),
              Image_("20x20", "iphone", icon_filename, "3x"),
              Image_("29x29", "iphone", icon_filename, "2x"),
              Image_("29x29", "iphone", icon_filename, "3x"),
              Image_("40x40", "iphone", icon_filename, "2x"),
              Image_("40x40", "iphone", icon_filename, "3x"),
              Image_("60x60", "iphone", icon_filename, "2x"),
              Image_("60x60", "iphone", icon_filename, "3x"),
              Image_("1024x1024", "ios-marketing", icon_filename, "1x") >>)>>,
            <<"info", info>> >>)

\* Lines 116-121.
assets_info == PyDict(<< <<"info", info>> >>)

----------------------------------------------------------------------------
(* json.dump(obj, f, indent=2).  The text is a sequence of tokens: the     *)
(* punctuation, the string and number literals, and the line breaks with   *)
(* the number of spaces that follow them.                                  *)

P(c) == [k |-> "p", v |-> c]
S(s) == [k |-> "s", v |-> s]
N(n) == [k |-> "n", n |-> n]
NL(n) == [k |-> "nl", n |-> n]

RECURSIVE Encode(_, _, _)
RECURSIVE EncodeItems(_, _, _, _)
RECURSIVE EncodePairs(_, _, _, _)

EncodeItems(items, i, indent, level) ==
    IF i > Len(items) THEN <<>>
    ELSE <<NL(indent * level)>> \o Encode(items[i], indent, level)
         \o (IF i < Len(items) THEN <<P(",")>> ELSE <<>>)
         \o EncodeItems(items, i + 1, indent, level)

EncodePairs(pairs, i, indent, level) ==
    IF i > Len(pairs) THEN <<>>
    ELSE <<NL(indent * level), S(pairs[i][1]), P(":")>>
         \o Encode(pairs[i][2], indent, level)
         \o (IF i < Len(pairs) THEN <<P(",")>> ELSE <<>>)
         \o EncodePairs(pairs, i + 1, indent, level)

Encode(o, indent, level) ==
    CASE o.t = "str" -> <<S(o.s)>>
      [] o.t = "int" -> <<N(o.n)>>
      [] o.t = "list" ->
            IF o.items = <<>> THEN <<P("["), P("]")>>
            ELSE <<P("[")>> \o EncodeItems(o.items, 1, indent, level + 1)
                 \o <<NL(indent * level), P("]")>>
      [] o.t = "dict" ->
            IF o.pairs = <<>> THEN <<P("{"), P("}")>>
            ELSE <<P("{")>> \o EncodePairs(o.pairs, 1, indent, level + 1)
                 \o <<NL(indent * level), P("}")>>

json_dumps(obj, indent) == Encode(obj, indent, 0)

----------------------------------------------------------------------------
(* The image and the drawing calls, lines 14-24 and 41.  The pixels are    *)
(* kept as the background colour and the drawing operations applied to it. *)

size == 1024

center == size \div 2

font_size == 180

radii == <<300, 220, 140>>

text == "TrollNFC"

NoImage == [mode |-> "", size |-> <<0, 0>>, color |-> <<0, 0, 0>>, ops |-> <<>>]

Image_new(mode, sz, color) ==
    [mode |-> mode, size |-> sz, color |-> color, ops |-> <<>>]

draw_arc(im, box, start, end, fill, width) ==
    [im EXCEPT !.ops = Append(@, [op |-> "arc", bbox |-> box, start |-> start,
                                  end |-> end, fill |-> fill, width |-> width])]

draw_text_rgba(im, xy, txt, fnt, fill) ==
    [im EXCEPT !.mode = "RGBA",
               !.ops = Append(@, [op |-> "text", xy |-> xy, text |-> txt,
                                  font |-> fnt, fill |-> fill])]

draw_text(im, xy, txt, fnt, fill) ==
    [im EXCEPT !.ops = Append(@, [op |-> "text", xy |-> xy, text |-> txt,
                                  font |-> fnt, fill |-> fill])]

\* One iteration of the loop of lines 21-24: the two opposing arcs of radius r.
draw_ring(im, r) ==
    LET box == <<center - r, center - r, center + r, center + r>> IN
    draw_arc(draw_arc(im, box, -60, 60, <<0, 122, 255>>, 40),
             box, 120, 240, <<0, 122, 255>>, 40)

NoFont == [kind |-> "none", file |-> "", size |-> 0]

ImageFont_truetype(file, sz) == [kind |-> "truetype", file |-> file, size |-> sz]

ImageFont_load_default == [kind |-> "default", file |-> "", size |-> 0]

NoBBox == <<0, 0, 0, 0>>

\* What draw.textbbox((0, 0), text, font) can return: the metrics belong to
\* the font file of the host, so two plausible boxes stand for each font.
TextBBoxes(fnt) ==
    IF fnt.kind = "truetype"
    THEN {<<0, 41, 690, 172>>, <<3, 43, 701, 175>>}
    ELSE {<<0, 3, 46, 11>>, <<1, 2, 49, 13>>}

\* Lines 38-41: the position is ((size - text_w) / 2, (size - text_h) / 2),
\* a true division; it is kept as the pair of numerators over 2.
text_xy(b) ==
    LET text_w == b[3] - b[1]
        text_h == b[4] - b[2]
    IN  [num |-> <<size - text_w, size - text_h>>, den |-> 2]

----------------------------------------------------------------------------
(* img.save(path), line 46: the PNG encoder.  A PNG file is its chunks.    *)

ColorType(mode) ==
    CASE mode = "L" -> 0
      [] mode = "RGB" -> 2
      [] mode = "P" -> 3
      [] mode = "RGBA" -> 6

PngEncode(im) ==
    << [chunk |-> "IHDR", width |-> im.size[1], height |-> im.size[2],
        bit_depth |-> 8, color_type |-> ColorType(im.mode)],
       [chunk |-> "IDAT", color |-> im.color, ops |-> im.ops],
       [chunk |-> "IEND"] >>

----------------------------------------------------------------------------
(* The file system calls.  Each returns the set of its possible outcomes,  *)
(* [ok, dirs] or [ok, files]; ok = FALSE is a raised OSError.              *)

Exists(fs, p) == p \in DOMAIN fs

Put(fs, p, data) == (p :> data) @@ fs

makedirs_no_exist_ok(name, exist_ok, ds) ==
    LET missing == SelectSeq(Prefixes(name), LAMBDA d : d \notin ds)
        Made(k) == {missing[i] : i \in 1..k}
    IN  IF missing = <<>>
        THEN {[ok |-> FALSE, dirs |-> ds]}
        ELSE {[ok |-> TRUE, dirs |-> ds \cup Made(Len(missing))]}
             \cup {[ok |-> FALSE, dirs |-> ds \cup Made(k - 1)] :
                     k \in 1..Len(missing)}

\* os.makedirs(name, exist_ok=...), line 11.  The missing directories are made
\* outermost first and any mkdir may fail on the host; a leaf that is already
\* there raises FileExistsError unless exist_ok.
makedirs(name, exist_ok, ds) ==
    LET missing == SelectSeq(Prefixes(name), LAMBDA d : d \notin ds)
        Made(k) == {missing[i] : i \in 1..k}
    IN  IF missing = <<>>
        THEN {[ok |-> exist_ok, dirs |-> ds]}
        ELSE {[ok |-> TRUE, dirs |-> ds \cup Made(Len(missing))]}
             \cup {[ok |-> FALSE, dirs |-> ds \cup Made(k - 1)] :
                     k \in 1..Len(missing)}

open_append(path, fs, ds) ==
    {[ok |-> TRUE, files |-> IF Exists(fs, path) THEN fs ELSE Put(fs, path, <<>>)] :
        x \in {d \in {Parent(path)} : d \in ds}}
    \cup {[ok |-> FALSE, files |-> fs]}

\* open(path, "w"), lines 112 and 123: creates the file or truncates it.
open_w(path, fs, ds) ==
    {[ok |-> TRUE, files |-> Put(fs, path, <<>>)] :
        x \in {d \in {Parent(path)} : d \in ds}}
    \cup {[ok |-> FALSE, files |-> fs]}

\* Where a write that fails can stop.
PartialCuts(data) == {0, Len(data) \div 2}

\* f.write of the whole of data at the end of the open file; a failure leaves
\* a prefix of it behind.
write(path, data, fs) ==
    {[ok |-> TRUE, files |-> Put(fs, path, fs[path] \o data)]}
    \cup {[ok |-> FALSE, files |-> Put(fs, path, fs[path] \o SubSeq(data, 1, n))] :
            n \in PartialCuts(data)}

\* json.dump(obj, f, indent=2), lines 113 and 124.
json_dump(obj, path, fs) == write(path, json_dumps(obj, 2), fs)

\* Image.save(path), line 46: open the file "w+b" and write the encoding.  When
\* the encoder fails, a Pillow that created the file removes it again, an older
\* one leaves what was written.
Image_save(im, path, fs, ds) ==
    LET opened == open_w(path, fs, ds)
        Written(o) ==
            IF ~o.ok THEN {o}
            ELSE write(path, PngEncode(im), o.files)
                 \cup (IF Exists(fs, path) THEN {} ELSE {[ok |-> FALSE, files |-> fs]})
    IN  UNION {Written(o) : o \in opened}

----------------------------------------------------------------------------
(* The script.                                                             *)

\* print(f"Warning: Could not draw text properly: {e}"), line 43.
Warning(e) == [line |-> "Warning: Could not draw text properly", e |-> e]

\* print("Icon assets generated successfully."), line 126.
Notice == [line |-> "Icon assets generated successfully.", e |-> ""]

\* What a file holds before the first run when it is already there.
StaleJson ==
    json_dumps(PyDict(<< <<"images", PyList(<<Image_("16x16", "mac", "old.png", "1x")>>)>>,
                         <<"info", PyDict(<< <<"author", PyStr("someone")>> >>)>> >>), 2)

StalePng == PngEncode(Image_new("RGBA", <<512, 512>>, <<0, 0, 0>>))

Stale(p) == IF p = icon_path THEN StalePng ELSE StaleJson

OutputPaths == {icon_path, iconset_json_path, root_json_path}

JsonPaths == {iconset_json_path, root_json_path}

\* The directory trees the script can find: any leading part of icon_set_dir.
InitialDirs ==
    {{Prefixes(icon_set_dir)[i] : i \in 1..k} : k \in 0..Len(icon_set_dir)}

InitialFiles(ds) ==
    {[p \in D |-> Stale(p)] : D \in SUBSET {p \in OutputPaths : Parent(p) \in ds}}

JsonOf(fs) == [p \in (DOMAIN fs) \cap JsonPaths |-> fs[p]]

\* The interpreter starts: nothing drawn, nothing printed.
Fresh ==
    /\ pc = "makedirs"
    /\ img = NoImage
    /\ r_idx = 0
    /\ font = NoFont
    /\ bbox = NoBBox
    /\ stdout = <<>>
    /\ exit_code = -1
    /\ crash_at = ""
    /\ written = <<>>
    /\ raised = {}

Init ==
    /\ Fresh
    /\ run = 1
    /\ dirs \in InitialDirs
    /\ files \in InitialFiles(dirs)
    /\ prev = [status |-> "none", json |-> JsonOf(files)]

\* An exception nothing catches: traceback, exit status 1.
Raise(stmt) ==
    /\ pc' = "crashed"
    /\ crash_at' = stmt
    /\ exit_code' = 1
    /\ raised' = raised \cup {stmt}

\* The handler of line 42-43, then on to line 46.
Except(stmt) ==
    /\ stdout' = Append(stdout, Warning(stmt))
    /\ pc' = "save"
    /\ raised' = raised \cup {stmt}

ExceptReraise(stmt) ==
    /\ stdout' = stdout
    /\ Raise(stmt)

\* Line 11.
Makedirs ==
    /\ pc = "makedirs"
    /\ \E o \in makedirs(icon_set_dir, TRUE, dirs) :
          /\ dirs' = o.dirs
          /\ IF o.ok
             THEN pc' = "new" /\ UNCHANGED <<crash_at, exit_code, raised>>
             ELSE Raise("makedirs")
    /\ UNCHANGED <<run, files, img, r_idx, font, bbox, stdout, written, prev>>

\* Lines 14-20.
NewImage ==
    /\ pc = "new"
    /\ img' = Image_new("RGB", <<size, size>>, <<20, 20, 20>>)
    /\ r_idx' = 1
    /\ pc' = "arcs"
    /\ UNCHANGED <<run, dirs, files, font, bbox, stdout, exit_code, crash_at,
                   written, raised, prev>>

\* Lines 21-24, one iteration.
DrawArcs ==
    /\ pc = "arcs"
    /\ img' = draw_ring(img, radii[r_idx])
    /\ r_idx' = r_idx + 1
    /\ pc' = IF r_idx = Len(radii) THEN "truetype" ELSE "arcs"
    /\ UNCHANGED <<run, dirs, files, font, bbox, stdout, exit_code, crash_at,
                   written, raised, prev>>

LoadTruetypeWarns ==
    /\ pc = "truetype"
    /\ \E ok \in BOOLEAN :
          IF ok
          THEN font' = ImageFont_truetype("arial.ttf", font_size) /\ pc' = "textbbox"
               /\ UNCHANGED <<stdout, raised>>
          ELSE font' = font /\ pc' = "load_default"
               /\ stdout' = Append(stdout, Warning("truetype"))
               /\ raised' = raised \cup {"truetype"}
    /\ UNCHANGED <<run, dirs, files, img, r_idx, bbox, exit_code, crash_at,
                   written, prev>>

\* Lines 29-32: the inner try; its bare except sends any failure to line 33.
LoadTruetype ==
    /\ pc = "truetype"
    /\ \E ok \in BOOLEAN :
          IF ok
          THEN font' = ImageFont_truetype("arial.ttf", font_size) /\ pc' = "textbbox"
               /\ raised' = raised
          ELSE font' = font /\ pc' = "load_default"
               /\ raised' = raised \cup {"truetype"}
    /\ UNCHANGED <<run, dirs, files, img, r_idx, bbox, stdout, exit_code,
                   crash_at, written, prev>>

LoadDefaultUncaught ==
    /\ pc = "load_default"
    /\ \E ok \in BOOLEAN :
          IF ok
          THEN /\ font' = ImageFont_load_default
               /\ pc' = "textbbox"
               /\ UNCHANGED <<stdout, exit_code, crash_at, raised>>
          ELSE /\ font' = font
               /\ ExceptReraise("load_default")
    /\ UNCHANGED <<run, dirs, files, img, r_idx, bbox, written, prev>>

\* Line 33, inside the outer try.
LoadDefault ==
    /\ pc = "load_default"
    /\ \E ok \in BOOLEAN :
          IF ok
          THEN font' = ImageFont_load_default /\ pc' = "textbbox"
               /\ UNCHANGED <<stdout, raised>>
          ELSE font' = font /\ Except("load_default")
    /\ UNCHANGED <<run, dirs, files, img, r_idx, bbox, exit_code, crash_at,
                   written, prev>>

\* Lines 35-39.
TextBBox ==
    /\ pc = "textbbox"
    /\ \E ok \in BOOLEAN :
          IF ok
          THEN /\ \E b \in TextBBoxes(font) : bbox' = b
               /\ pc' = "text"
               /\ UNCHANGED <<stdout, raised>>
          ELSE bbox' = bbox /\ Except("textbbox")
    /\ UNCHANGED <<run, dirs, files, img, r_idx, font, exit_code, crash_at,
                   written, prev>>

\* Line 41.  draw.text composes the glyph mask onto the image as its last step,
\* so a call that raises has drawn nothing.
DrawText ==
    /\ pc = "text"
    /\ \E ok \in BOOLEAN :
          IF ok
          THEN /\ img' = draw_text(img, text_xy(bbox), text, font, <<255, 255, 255>>)
               /\ pc' = "save"
               /\ UNCHANGED <<stdout, raised>>
          ELSE img' = img /\ Except("text")
    /\ UNCHANGED <<run, dirs, files, r_idx, font, bbox, exit_code, crash_at,
                   written, prev>>

SaveSwallow ==
    /\ pc = "save"
    /\ \E o \in Image_save(img, icon_path, files, dirs) :
          /\ files' = o.files
          /\ pc' = "open_iconset"
          /\ UNCHANGED <<crash_at, exit_code>>
          /\ IF o.ok
             THEN written' = Append(written, icon_path) /\ raised' = raised
             ELSE written' = written /\ raised' = raised \cup {"save"}
    /\ UNCHANGED <<run, dirs, img, r_idx, font, bbox, stdout, prev>>

\* Line 46.
Save ==
    /\ pc = "save"
    /\ \E o \in Image_save(img, icon_path, files, dirs) :
          /\ files' = o.files
          /\ IF o.ok
             THEN /\ written' = Append(written, icon_path)
                  /\ pc' = "open_iconset"
                  /\ UNCHANGED <<crash_at, exit_code, raised>>
             ELSE written' = written /\ Raise("save")
    /\ UNCHANGED <<run, dirs, img, r_idx, font, bbox, stdout, prev>>

\* with open(path, "w") as f, lines 112 and 123.
Open(at, path, next) ==
    /\ pc = at
    /\ \E o \in open_w(path, files, dirs) :
          /\ files' = o.files
          /\ IF o.ok
             THEN pc' = next /\ UNCHANGED <<crash_at, exit_code, raised>>
             ELSE Raise(at)
    /\ UNCHANGED <<run, dirs, img, r_idx, font, bbox, stdout, written, prev>>

DumpSwallow(at, obj, path, next) ==
    /\ pc = at
    /\ \E o \in json_dump(obj, path, files) :
          /\ files' = o.files
          /\ pc' = next
          /\ UNCHANGED <<crash_at, exit_code>>
          /\ IF o.ok
             THEN written' = Append(written, path) /\ raised' = raised
             ELSE written' = written /\ raised' = raised \cup {at}
    /\ UNCHANGED <<run, dirs, img, r_idx, font, bbox, stdout, prev>>

\* json.dump(obj, f, indent=2) and the end of the with block, lines 113 and 124.
Dump(at, obj, path, next) ==
    /\ pc = at
    /\ \E o \in json_dump(obj, path, files) :
          /\ files' = o.files
          /\ IF o.ok
             THEN /\ written' = Append(written, path)
                  /\ pc' = next
                  /\ UNCHANGED <<crash_at, exit_code, raised>>
             ELSE written' = written /\ Raise(at)
    /\ UNCHANGED <<run, dirs, img, r_idx, font, bbox, stdout, prev>>

OpenIconset == Open("open_iconset", iconset_json_path, "dump_iconset")

DumpIconset == Dump("dump_iconset", contents, iconset_json_path, "open_root")

OpenRoot == Open("open_root", root_json_path, "dump_root")

DumpRoot == Dump("dump_root", assets_info, root_json_path, "print")

\* Line 126 and the end of the script.
PrintNotice ==
    /\ pc = "print"
    /\ stdout' = Append(stdout, Notice)
    /\ pc' = "done"
    /\ exit_code' = 0
    /\ UNCHANGED <<run, dirs, files, img, r_idx, font, bbox, crash_at, written,
                   raised, prev>>

Terminated == pc \in {"done", "crashed"}

\* The script is started again on the file system the last run left.
Rerun ==
    /\ Terminated
    /\ run < MaxRuns
    /\ run' = run + 1
    /\ prev' = [status |-> pc, json |-> JsonOf(files)]
    /\ pc' = "makedirs"
    /\ img' = NoImage
    /\ r_idx' = 0
    /\ font' = NoFont
    /\ bbox' = NoBBox
    /\ stdout' = <<>>
    /\ exit_code' = -1
    /\ crash_at' = ""
    /\ written' = <<>>
    /\ raised' = {}
    /\ UNCHANGED <<dirs, files>>

Next ==
    \/ Makedirs
    \/ NewImage
    \/ DrawArcs
    \/ LoadTruetype
    \/ LoadDefault
    \/ TextBBox
    \/ DrawText
    \/ Save
    \/ OpenIconset
    \/ DumpIconset
    \/ OpenRoot
    \/ DumpRoot
    \/ PrintNotice
    \/ Rerun

Spec == Init /\ [][Next]_vars

----------------------------------------------------------------------------
(* Properties.                                                             *)

(* Readers of what the run leaves behind; the properties look at the files *)
(* and the output through them.                                           *)

(* json.loads: the inverse reading of a token sequence.  A result is       *)
(* [ok, val, rest]; anything that is not one complete value is an error.   *)

Fail == [ok |-> FALSE, val |-> PyStr(""), rest |-> <<>>]

IsP(tok, c) == tok.k = "p" /\ tok.v = c

RECURSIVE ParseValue(_)
RECURSIVE ParseItems(_, _)
RECURSIVE ParsePairs(_, _)

\* After "[" and the items read so far: the next item, then "," or "]".
ParseItems(ts, acc) ==
    LET r == ParseValue(ts) IN
    IF ~r.ok \/ r.rest = <<>> THEN Fail
    ELSE IF IsP(Head(r.rest), "]")
         THEN [ok |-> TRUE, val |-> PyList(Append(acc, r.val)), rest |-> Tail(r.rest)]
    ELSE IF IsP(Head(r.rest), ",")
         THEN ParseItems(Tail(r.rest), Append(acc, r.val))
    ELSE Fail

\* After "{" and the pairs read so far: key ":" value, then "," or "}".
ParsePairs(ts, acc) ==
    IF Len(ts) < 2 \/ Head(ts).k # "s" \/ ~IsP(ts[2], ":") THEN Fail
    ELSE LET r == ParseValue(Tail(Tail(ts)))
             pr == <<Head(ts).v, r.val>>
         IN  IF ~r.ok \/ r.rest = <<>> THEN Fail
             ELSE IF IsP(Head(r.rest), "}")
                  THEN [ok |-> TRUE, val |-> PyDict(Append(acc, pr)), rest |-> Tail(r.rest)]
             ELSE IF IsP(Head(r.rest), ",")
                  THEN ParsePairs(Tail(r.rest), Append(acc, pr))
             ELSE Fail

ParseValue(ts) ==
    IF ts = <<>> THEN Fail
    ELSE LET h == Head(ts) IN
         CASE h.k = "s" -> [ok |-> TRUE, val |-> PyStr(h.v), rest |-> Tail(ts)]
           [] h.k = "n" -> [ok |-> TRUE, val |-> PyInt(h.n), rest |-> Tail(ts)]
           [] IsP(h, "[") ->
                IF Len(ts) >= 2 /\ IsP(ts[2], "]")
                THEN [ok |-> TRUE, val |-> PyList(<<>>), rest |-> Tail(Tail(ts))]
                ELSE ParseItems(Tail(ts), <<>>)
           [] IsP(h, "{") ->
                IF Len(ts) >= 2 /\ IsP(ts[2], "}")
                THEN [ok |-> TRUE, val |-> PyDict(<<>>), rest |-> Tail(Tail(ts))]
                ELSE ParsePairs(Tail(ts), <<>>)
           [] OTHER -> Fail

IsWhitespace(tok) == tok.k = "nl"

json_loads(data) ==
    LET r == ParseValue(SelectSeq(data, LAMBDA tok : ~IsWhitespace(tok)))
    IN  IF r.ok /\ r.rest = <<>> THEN [ok |-> TRUE, val |-> r.val]
        ELSE [ok |-> FALSE, val |-> PyStr("")]

\* d[key] for a parsed dict, and whether the key is there.
Keys(d) == {d.pairs[i][1] : i \in 1..Len(d.pairs)}
Get(d, key) ==
    d.pairs[CHOOSE i \in 1..Len(d.pairs) : d.pairs[i][1] = key][2]

ModeOf(color_type) ==
    CASE color_type = 0 -> "L"
      [] color_type = 2 -> "RGB"
      [] color_type = 3 -> "P"
      [] color_type = 6 -> "RGBA"

\* Image.open(path): mode and size as a reader of the file finds them.
PngDecode(data) ==
    IF Len(data) = 3 /\ data[1].chunk = "IHDR" /\ data[2].chunk = "IDAT"
       /\ data[3].chunk = "IEND"
    THEN [ok |-> TRUE, mode |-> ModeOf(data[1].color_type),
          size |-> <<data[1].width, data[1].height>>, ops |-> data[2].ops]
    ELSE [ok |-> FALSE, mode |-> "", size |-> <<0, 0>>, ops |-> <<>>]

HasText(im) == \E i \in 1..Len(im.ops) : im.ops[i].op = "text"

IsWarning(m) == m.line = Warning("").line

Warned == \E i \in 1..Len(stdout) : IsWarning(stdout[i])

Noticed == \E i \in 1..Len(stdout) : stdout[i] = Notice

TryStmts == {"truetype", "load_default", "textbbox", "text"}

\* The statements of the outer try whose exception reaches the handler.
HandledStmts == {"load_default", "textbbox", "text"}

IOStmts == {"makedirs", "save", "open_iconset", "dump_iconset", "open_root",
            "dump_root"}

\* The try block is behind the run.
PastTry ==
    \/ pc \in {"save", "open_iconset", "dump_iconset", "open_root", "dump_root",
               "print", "done"}
    \/ pc = "crashed" /\ crash_at # "makedirs"

WarningCount == Cardinality({i \in 1..Len(stdout) : IsWarning(stdout[i])})

AllWritten == written = <<icon_path, iconset_json_path, root_json_path>>

\* icon.png is there and reads back as a 1024x1024 image.
IconIs1024 ==
    /\ Exists(files, icon_path)
    /\ PngDecode(files[icon_path]).ok
    /\ PngDecode(files[icon_path]).size = <<1024, 1024>>

JsonWellFormed(p) == Exists(files, p) /\ json_loads(files[p]).ok

\* What a completed run leaves, whatever happened to the label.
Completed ==
    /\ exit_code = 0
    /\ AllWritten
    /\ IconIs1024
    /\ JsonWellFormed(iconset_json_path)
    /\ JsonWellFormed(root_json_path)

ImagesOf(doc) == Get(doc, "images").items

\* C2: once this run has written AppIcon.appiconset/Contents.json, every
\* filename the written manifest names is a file of the icon-set directory
\* that this run wrote before it, and it holds the exported canvas.
C2_ManifestFilesWritten ==
    iconset_json_path \in Range(written) =>
        LET doc == json_loads(files[iconset_json_path]) IN
        /\ doc.ok
        /\ \A i \in 1..Len(ImagesOf(doc.val)) :
              LET target == PathJoin(icon_set_dir, Get(ImagesOf(doc.val)[i], "filename").s)
              IN  /\ target \in Range(written)
                  /\ \E a, b \in 1..Len(written) :
                        a < b /\ written[a] = target /\ written[b] = iconset_json_path
                  /\ Exists(files, target)
                  /\ files[target] = PngEncode(img)

C2_Witness ==
    /\ iconset_json_path \in Range(written)
    /\ pc = "open_root"

\* C3: the canvas is 1024x1024 RGB from its creation on, through every arc,
\* the text and the fallback, and a run that completes leaves icon.png in the
\* icon-set directory, reading back as a 1024x1024 RGB image.
C3_IconSizeAndMode ==
    /\ img # NoImage => img.mode = "RGB" /\ img.size = <<1024, 1024>>
    /\ pc = "done" =>
          /\ Parent(icon_path) = icon_set_dir
          /\ Exists(files, icon_path)
          /\ PngDecode(files[icon_path]) =
                [ok |-> TRUE, mode |-> "RGB", size |-> <<1024, 1024>>, ops |-> img.ops]

C3_Witness ==
    /\ pc = "done"
    /\ HasText(img)
    /\ run = 1

\* The nine entries, as (size, idiom, scale).
ExpectedEntries ==
    << <<"20x20", "iphone", "2x">>, <<"20x20", "iphone", "3x">>,
       <<"29x29", "iphone", "2x">>, <<"29x29", "iphone", "3x">>,
       <<"40x40", "iphone", "2x">>, <<"40x40", "iphone", "3x">>,
       <<"60x60", "iphone", "2x">>, <<"60x60", "iphone", "3x">>,
       <<"1024x1024", "ios-marketing", "1x">> >>

ExpectedInfo == PyDict(<< <<"author", PyStr("xcode")>>, <<"version", PyInt(1)>> >>)

\* C4: after a completed run, with or without the warning, the icon-set
\* Contents.json parses to a document with keys images and info; images has
\* the nine entries in the stated order, each with non-empty size, idiom,
\* filename and scale and filename "icon.png"; info is author xcode, version 1.
C4_ManifestContent ==
    pc = "done" =>
        LET doc == json_loads(files[iconset_json_path]) IN
        /\ doc.ok
        /\ Keys(doc.val) = {"images", "info"}
        /\ Get(doc.val, "info") = ExpectedInfo
        /\ Len(ImagesOf(doc.val)) = 9
        /\ \A i \in 1..Len(ImagesOf(doc.val)) :
              LET e == ImagesOf(doc.val)[i] IN
              /\ Keys(e) = {"size", "idiom", "filename", "scale"}
              /\ \A key \in Keys(e) : Get(e, key).t = "str" /\ Get(e, key).s # ""
              /\ Get(e, "size").s = ExpectedEntries[i][1]
              /\ Get(e, "idiom").s = ExpectedEntries[i][2]
              /\ Get(e, "scale").s = ExpectedEntries[i][3]
              /\ Get(e, "filename").s = "icon.png"

C4_Witness ==
    /\ pc = "done"
    /\ Warned
    /\ Exists(prev.json, iconset_json_path)

\* C5: after a completed run the root Contents.json parses to exactly
\* {"info": {"author": "xcode", "version": 1}}, with the single key info, and
\* it is another file than the icon-set Contents.json, which still holds the
\* manifest with its images.
C5_RootContent ==
    pc = "done" =>
        LET root == json_loads(files[root_json_path])
            iconset == json_loads(files[iconset_json_path])
        IN  /\ root.ok
            /\ root.val = PyDict(<< <<"info", ExpectedInfo>> >>)
            /\ Keys(root.val) = {"info"}
            /\ root_json_path # iconset_json_path
            /\ iconset.ok
            /\ "images" \in Keys(iconset.val)

C5_Witness ==
    /\ pc = "done"
    /\ Exists(prev.json, root_json_path)
    /\ run = 1

\* C6: when a run that completed is followed by another run that completes,
\* both Contents.json files hold after the second what they held after the
\* first, whatever the tree held before the first.
C6_Idempotent ==
    (run > 1 /\ pc = "done" /\ prev.status = "done") =>
        /\ DOMAIN JsonOf(files) = JsonPaths
        /\ JsonOf(files) = prev.json

C6_Witness ==
    /\ run > 1
    /\ pc = "done"
    /\ prev.status = "done"

IconSetDirs == Range(Prefixes(icon_set_dir))

\* C7: os.makedirs never fails over a directory that is already there: with
\* the icon-set directory present it changes nothing and the run goes on to
\* create the image; with only outer directories present it keeps them, and
\* it can fail only while making a missing one.  When it returns, the whole
\* tree exists and the run is at the same statement with the same locals as
\* when nothing existed.
C7_ExistingDirsTolerated ==
    [][pc = "makedirs" =>
          /\ dirs \subseteq dirs'
          /\ icon_set_dir \in dirs => pc' = "new" /\ dirs' = dirs
          /\ pc' = "crashed" => icon_set_dir \notin dirs /\ icon_set_dir \notin dirs'
          /\ pc' = "new" =>
                /\ IconSetDirs \subseteq dirs'
                /\ <<img, r_idx, font, bbox, stdout, exit_code, crash_at, written,
                     raised, files>>' =
                   <<NoImage, 0, NoFont, NoBBox, <<>>, -1, "", <<>>, {}, files>>
      ]_vars

C7_Witness ==
    /\ run = 1
    /\ pc = "new"
    /\ Exists(files, icon_path)

\* C8: the completion notice is printed only when all three writes are done,
\* as the last statement, and the run then ends with exit status 0; the
\* warning is printed while no file has been written yet, and a run that
\* printed it is ended only by a failing file operation or by its normal end
\* with exit status 0.
C8_NoticeAfterWrites ==
    /\ [](/\ Noticed => AllWritten /\ pc = "done" /\ stdout[Len(stdout)] = Notice
          /\ pc = "done" => Noticed /\ exit_code = 0
          /\ raised \cap TryStmts # {} /\ pc = "crashed" => crash_at \in IOStmts)
    /\ [][(~Warned /\ Warned') => written = <<>> /\ written' = <<>>]_vars

C8_Witness ==
    /\ pc = "done"
    /\ Warned
    /\ Noticed
    /\ "text" \in raised

\* The root Contents.json is as the run found it.
RootUntouched ==
    /\ Exists(files, root_json_path) <=> Exists(prev.json, root_json_path)
    /\ Exists(files, root_json_path) => files[root_json_path] = prev.json[root_json_path]

\* C9: a failure of makedirs, of the save or of a Contents.json write ends the
\* run at that statement with exit status 1 and no completion notice; nothing
\* runs after it (only a new invocation follows), and what earlier statements
\* wrote is still there: a failed save leaves both Contents.json files as the
\* run found them, a failed icon-set write leaves icon.png complete and the
\* root Contents.json as the run found it, a failed root write leaves icon.png
\* and the icon-set Contents.json complete.
C9_FatalFailures ==
    /\ [](pc = "crashed" =>
            /\ crash_at \in IOStmts
            /\ exit_code = 1
            /\ ~Noticed
            /\ crash_at \in {"makedirs", "save"} =>
                  written = <<>> /\ JsonOf(files) = prev.json
            /\ crash_at \in {"open_iconset", "dump_iconset"} =>
                  /\ written = <<icon_path>>
                  /\ files[icon_path] = PngEncode(img)
                  /\ RootUntouched
            /\ crash_at \in {"open_root", "dump_root"} =>
                  /\ written = <<icon_path, iconset_json_path>>
                  /\ files[icon_path] = PngEncode(img)
                  /\ files[iconset_json_path] = json_dumps(contents, 2))
    /\ [][pc = "crashed" => run' = run + 1 /\ files' = files /\ dirs' = dirs]_vars

C9_Witness ==
    /\ pc = "crashed"
    /\ crash_at = "dump_iconset"
    /\ Exists(files, root_json_path)

\* The six arcs of lines 21-24, written out.
ExpectedArc(box, start, end) ==
    [op |-> "arc", bbox |-> box, start |-> start, end |-> end,
     fill |-> <<0, 122, 255>>, width |-> 40]

ExpectedArcs ==
    << ExpectedArc(<<212, 212, 812, 812>>, -60, 60),
       ExpectedArc(<<212, 212, 812, 812>>, 120, 240),
       ExpectedArc(<<292, 292, 732, 732>>, -60, 60),
       ExpectedArc(<<292, 292, 732, 732>>, 120, 240),
       ExpectedArc(<<372, 372, 652, 652>>, -60, 60),
       ExpectedArc(<<372, 372, 652, 652>>, 120, 240) >>

\* C10: a run prints the warning at most once; after the try block it has
\* printed it exactly when the text is not on the canvas, which is exactly
\* when load_default, textbbox or text raised; when only truetype raised, the
\* default font is in use, the text is drawn with it and there is no warning;
\* either way the canvas starts with the six arcs, unchanged.
C10_WarningIffNoText ==
    /\ WarningCount <= 1
    /\ Warned => PastTry
    /\ PastTry =>
          /\ Warned <=> ~HasText(img)
          /\ Warned <=> raised \cap HandledStmts # {}
          /\ raised \cap TryStmts = {"truetype"} =>
                /\ ~Warned
                /\ font = ImageFont_load_default
                /\ HasText(img)
                /\ img.ops[Len(img.ops)].font = font
          /\ SubSeq(img.ops, 1, 6) = ExpectedArcs
          /\ Len(img.ops) = IF Warned THEN 6 ELSE 7

C10_Witness ==
    /\ pc = "save"
    /\ raised = {"truetype"}
    /\ HasText(img)

====
